---- MODULE Spec2Model ----
(***************************************************************************)
(* The collapsible navigation sidebar of the DevNotes documentation site   *)
(* (src/components/sidebar.tsx): the isOpen flag, the current path that    *)
(* usePathname() supplies, the static navigation data, and the tree that   *)
(* Sidebar() returns for them.                                             *)
(***************************************************************************)
EXTENDS Naturals, Sequences, FiniteSets, TLC

(* ----------------------------- bounds ---------------------------------- *)

\* Sections in the navigation data, and items in the whole of it.
MaxSections == 2
MaxItems == 2

(* ------------------------- navigation data ----------------------------- *)

None == "none"

\* The slugs the navigation data draws from; one route is a prefix of another.
Slugs == {"go/intro", "go/intro/setup"}

ItemTitle(slug) == IF slug = "go/intro" THEN "Intro" ELSE "Setup"

SectionTitle(i) == IF i = 1 THEN "Go" ELSE IF i = 2 THEN "Rust" ELSE "TypeScript"

NavigationItem == {[title |-> ItemTitle(s), slug |-> s] : s \in Slugs}

ItemSeqs == UNION {[1..k -> NavigationItem] : k \in 0..MaxItems}

RECURSIVE SumLen(_, _)
SumLen(f, n) == IF n = 0 THEN 0 ELSE Len(f[n]) + SumLen(f, n - 1)

\* Every navigation list within the bounds: an ordered list of sections,
\* each a title and an ordered list of {title, slug}; slugs may repeat.
Navigations ==
    {[i \in 1..Len(f) |-> [title |-> SectionTitle(i), items |-> f[i]]] :
        f \in {g \in UNION {[1..s -> ItemSeqs] : s \in 0..MaxSections} :
                 SumLen(g, Len(g)) <= MaxItems}}

\* The positions <<section, item>> of a navigation list.
Positions(nav) ==
    {p \in (DOMAIN nav) \X (1..MaxItems) : p[2] \in DOMAIN nav[p[1]].items}

ItemAt(nav, p) == nav[p[1]].items[p[2]]

UniqueSlugs(nav) ==
    \A p, q \in Positions(nav) :
        ItemAt(nav, p).slug = ItemAt(nav, q).slug => p = q

(* ------------------------------ render --------------------------------- *)

\* href of the DevNotes brand link.
BrandHref == "/docs/go/getting-started"

\* A plausible slip: the route built without its /docs prefix.
HrefNoDocs(item) == "/" \o item.slug

\* const href = `/docs/${item.slug}`
Href(item) == "/docs/" \o item.slug

\* A plausible slip: the active test by prefix instead of equality.
IsActivePrefix(pathname, href) ==
    /\ Len(pathname) >= Len(href)
    /\ SubSeq(pathname, 1, Len(href)) = href

\* A plausible change: a trailing slash of the path tolerated.
IsActiveTrailingSlash(pathname, href) ==
    pathname = href \/ pathname = href \o "/"

\* const isActive = pathname === href
IsActive(pathname, href) == pathname = href

BaseClass == "block rounded-md px-3 py-2 text-sm transition-colors font-display"
ActiveClass == "bg-zinc-800 text-white"
InactiveClass == "text-zinc-400 hover:bg-zinc-800/50 hover:text-white"

\* A plausible slip: the branches of the variant swapped.
LinkClassSwapped(isActive) ==
    <<BaseClass, IF isActive THEN InactiveClass ELSE ActiveClass>>

\* The arguments of cn(...): the shared classes, then the variant.
LinkClass(isActive) ==
    <<BaseClass, IF isActive THEN ActiveClass ELSE InactiveClass>>

\* One <li><Link> of the list.
ItemLink(item, pathname) ==
    [key |-> item.slug,
     href |-> Href(item),
     onClick |-> "closeSidebar",
     className |-> LinkClass(IsActive(pathname, Href(item))),
     label |-> item.title]

\* <SidebarContent />: the brand link and the sections with their links.
SidebarContent(nav, pathname) ==
    [brand |-> [href |-> BrandHref, onClick |-> "closeSidebar",
                className |-> "mb-8 mt-8 block", label |-> "DevNotes"],
     sections |->
        [s \in DOMAIN nav |->
            [key |-> nav[s].title,
             heading |-> nav[s].title,
             items |-> [i \in DOMAIN nav[s].items |->
                          ItemLink(nav[s].items[i], pathname)]]]]

\* A plausible slip: the overlay rendered whatever isOpen is.
OverlayShownAlways(open) == TRUE

\* A plausible slip: the condition of the overlay inverted.
OverlayShownInverted(open) == ~open

\* {isOpen && ( ... )}
OverlayShown(open) == open

\* The tree Sidebar() returns: the open button, the desktop panel, and
\* AnimatePresence with the scrim and the sliding panel as its children.
Render(nav, pathname, open) ==
    <<[tag |-> "button", label |-> "Open menu", onClick |-> "setIsOpen(true)",
       hiddenOn |-> "wide"],
      [tag |-> "aside", hiddenOn |-> "narrow",
       content |-> SidebarContent(nav, pathname)],
      [tag |-> "AnimatePresence",
       children |->
          IF OverlayShown(open)
          THEN <<[tag |-> "motion.div", onClick |-> "closeSidebar",
                  hiddenOn |-> "wide"],
                 [tag |-> "motion.aside", hiddenOn |-> "wide",
                  closeButton |-> [tag |-> "button", label |-> "Close menu",
                                   onClick |-> "closeSidebar"],
                  content |-> SidebarContent(nav, pathname)]>>
          ELSE <<>>]>>

\* The elements of a rendered tree.
OpenButtonOf(tree) == {tree[i] : i \in {j \in DOMAIN tree : tree[j].tag = "button"}}
DesktopOf(tree) == {tree[i] : i \in {j \in DOMAIN tree : tree[j].tag = "aside"}}
OverlayOf(tree) == tree[3].children
ScrimOf(tree) ==
    {OverlayOf(tree)[i] :
        i \in {j \in DOMAIN OverlayOf(tree) : OverlayOf(tree)[j].tag = "motion.div"}}
PanelOf(tree) ==
    {OverlayOf(tree)[i] :
        i \in {j \in DOMAIN OverlayOf(tree) : OverlayOf(tree)[j].tag = "motion.aside"}}

\* Every rendered copy of <SidebarContent />.
ContentsOf(tree) ==
    {a.content : a \in DesktopOf(tree)} \cup {a.content : a \in PanelOf(tree)}

\* The rendered link of the item at a position.
LinkAt(content, p) == content.sections[p[1]].items[p[2]]

\* The positions whose link carries the active variant in a rendered content.
ActiveIn(content) ==
    {p \in (DOMAIN content.sections) \X (1..MaxItems) :
        /\ p[2] \in DOMAIN content.sections[p[1]].items
        /\ content.sections[p[1]].items[p[2]].className[2] = ActiveClass}

(* ------------------------------ state ---------------------------------- *)

VARIABLES
    navigation,   \* the imported navigation list
    pathname,     \* what usePathname() returns
    isOpen,       \* useState(false)
    viewport,     \* "narrow" below the lg breakpoint, "wide" from it on
    pendingNav,   \* the href of a followed link whose navigation has not committed
    presence,     \* the overlay under AnimatePresence: absent, entering, shown, exiting
    last,         \* the last event handled, and isOpen before it
    prev,         \* the event handled before the last
    lastToggle,   \* the last open or close event of this mount: none, open, close
    overlayPath   \* the pathname the mounted overlay was last rendered with

vars == <<navigation, pathname, isOpen, viewport, pendingNav, presence, last, prev,
          lastToggle, overlayPath>>

\* The paths the route observer may deliver under the docs layout.
Paths == {"/docs/" \o s : s \in Slugs} \cup {BrandHref, "/docs/go/intro/"}

Panels == {"desktop", "overlay"}

Event(ev, panel) == [ev |-> ev, panel |-> panel, wasOpen |-> isOpen]

\* A plausible slip: the overlay open on mount.
InitialOpenTrue == TRUE

\* useState(false): the value of isOpen on mount.
InitialOpen == FALSE

\* A plausible change: a running entrance is left to finish before the exit.
PresenceNoInterrupt(phase, open) ==
    IF open
    THEN (IF phase \in {"absent", "exiting"} THEN "entering" ELSE phase)
    ELSE (IF phase = "shown" THEN "exiting" ELSE phase)

\* A plausible slip: the overlay outside AnimatePresence, removed at once.
PresenceNoExit(phase, open) ==
    IF open
    THEN (IF phase = "absent" THEN "entering" ELSE phase)
    ELSE "absent"

\* What AnimatePresence keeps mounted after a render with the given isOpen.
Presence(phase, open) ==
    IF open
    THEN (IF phase \in {"absent", "exiting"} THEN "entering" ELSE phase)
    ELSE (IF phase \in {"entering", "shown"} THEN "exiting" ELSE phase)

\* The pathname in the mounted overlay after a render: the current one while
\* the Sidebar returns the overlay; the one of its last render while
\* AnimatePresence keeps the removed element for its exit; none once unmounted.
MountedPath(phase, open, path, old) ==
    IF open THEN path ELSE IF phase = "absent" THEN None ELSE old

\* A plausible slip: the handler toggles instead of closing.
closeSidebarToggle == isOpen' = ~isOpen

\* A plausible slip: the handler sets nothing.
closeSidebarNoop == isOpen' = isOpen

\* A plausible slip: the handler written as setIsOpen(true).
closeSidebarOpens == isOpen' = TRUE

\* const closeSidebar = () => setIsOpen(false)
closeSidebar == isOpen' = FALSE

\* A plausible slip: the open control toggles instead of opening.
openMenuToggle == isOpen' = ~isOpen

\* onClick={() => setIsOpen(true)}
openMenu == isOpen' = TRUE

\* A plausible slip: the responsive classes left out.
ShownAlways(hiddenOn) == TRUE

\* lg:hidden hides an element on a wide viewport, hidden lg:block on a narrow
\* one.
Shown(hiddenOn) == viewport # hiddenOn

\* A plausible slip: the desktop aside without its "hidden" class.
ClickableDesktopAlways(panel) ==
    IF panel = "desktop"
    THEN TRUE
    ELSE Shown("wide") /\ presence # "absent"

\* A plausible change: the overlay takes no clicks until its entrance ended.
ClickableOverlayWhenShown(panel) ==
    IF panel = "desktop"
    THEN Shown("narrow")
    ELSE Shown("wide") /\ presence \in {"shown", "exiting"}

\* An element takes clicks while it is mounted and displayed: the desktop
\* panel on a wide viewport, the mounted overlay on a narrow one.
Clickable(panel) ==
    IF panel = "desktop"
    THEN Shown("narrow")
    ELSE Shown("wide") /\ presence # "absent"

Init ==
    /\ navigation \in Navigations
    /\ pathname \in Paths
    /\ isOpen = InitialOpen
    /\ viewport \in {"narrow", "wide"}
    /\ pendingNav = None
    /\ presence = Presence("absent", InitialOpen)
    /\ last = [ev |-> "mount", panel |-> None, wasOpen |-> FALSE]
    /\ prev = [ev |-> None, panel |-> None, wasOpen |-> FALSE]
    /\ lastToggle = "none"
    /\ overlayPath = MountedPath(presence, isOpen, pathname, None)

\* A plausible slip: the list reversed in place while rendering.
OpenMenuReversing ==
    /\ Shown("wide")
    /\ openMenu
    /\ presence' = Presence(presence, isOpen')
    /\ navigation' = [i \in DOMAIN navigation |->
                         navigation[Len(navigation) + 1 - i]]
    /\ last' = Event("open", None)
    /\ prev' = last
    /\ lastToggle' = "open"
    /\ UNCHANGED <<pathname, viewport, pendingNav>>
    /\ overlayPath' = MountedPath(presence', isOpen', pathname', overlayPath)

\* A plausible change: the open control refused while a transition runs.
OpenMenuGated ==
    /\ Shown("wide")
    /\ presence \notin {"entering", "exiting"}
    /\ openMenu
    /\ presence' = Presence(presence, isOpen')
    /\ last' = Event("open", None)
    /\ prev' = last
    /\ lastToggle' = "open"
    /\ UNCHANGED <<navigation, pathname, viewport, pendingNav>>
    /\ overlayPath' = MountedPath(presence', isOpen', pathname', overlayPath)

\* A plausible slip: the open control handled once only.
OpenMenuOnce ==
    /\ Shown("wide")
    /\ lastToggle = "none"
    /\ openMenu
    /\ presence' = Presence(presence, isOpen')
    /\ last' = Event("open", None)
    /\ prev' = last
    /\ lastToggle' = "open"
    /\ UNCHANGED <<navigation, pathname, viewport, pendingNav>>
    /\ overlayPath' = MountedPath(presence', isOpen', pathname', overlayPath)

\* The "Open menu" button.
OpenMenu ==
    /\ Shown("wide")
    /\ openMenu
    /\ presence' = Presence(presence, isOpen')
    /\ last' = Event("open", None)
    /\ prev' = last
    /\ lastToggle' = "open"
    /\ UNCHANGED <<navigation, pathname, viewport, pendingNav>>
    /\ overlayPath' = MountedPath(presence', isOpen', pathname', overlayPath)

\* A plausible slip: the close button without its onClick.
CloseMenuNoHandler ==
    /\ Clickable("overlay")
    /\ last' = Event("closeButton", "overlay")
    /\ prev' = last
    /\ UNCHANGED <<navigation, pathname, isOpen, viewport, pendingNav, presence,
                   lastToggle>>
    /\ overlayPath' = MountedPath(presence', isOpen', pathname', overlayPath)

\* The "Close menu" button of the overlay panel.
CloseMenu ==
    /\ Clickable("overlay")
    /\ closeSidebar
    /\ presence' = Presence(presence, isOpen')
    /\ last' = Event("closeButton", "overlay")
    /\ prev' = last
    /\ lastToggle' = "close"
    /\ UNCHANGED <<navigation, pathname, viewport, pendingNav>>
    /\ overlayPath' = MountedPath(presence', isOpen', pathname', overlayPath)

\* The scrim behind the overlay panel.
ScrimClick ==
    /\ Clickable("overlay")
    /\ closeSidebar
    /\ presence' = Presence(presence, isOpen')
    /\ last' = Event("scrim", "overlay")
    /\ prev' = last
    /\ lastToggle' = "close"
    /\ UNCHANGED <<navigation, pathname, viewport, pendingNav>>
    /\ overlayPath' = MountedPath(presence', isOpen', pathname', overlayPath)

\* A navigation item's <Link>: onClick, then the router starts the navigation.
SelectLink(panel, p) ==
    /\ Clickable(panel)
    /\ closeSidebar
    /\ presence' = Presence(presence, isOpen')
    /\ pendingNav' = Href(ItemAt(navigation, p))
    /\ last' = Event("link", panel)
    /\ prev' = last
    /\ lastToggle' = "close"
    /\ UNCHANGED <<navigation, pathname, viewport>>
    /\ overlayPath' = MountedPath(presence', isOpen', pathname', overlayPath)

\* The DevNotes brand <Link>.
SelectBrand(panel) ==
    /\ Clickable(panel)
    /\ closeSidebar
    /\ presence' = Presence(presence, isOpen')
    /\ pendingNav' = BrandHref
    /\ last' = Event("brand", panel)
    /\ prev' = last
    /\ lastToggle' = "close"
    /\ UNCHANGED <<navigation, pathname, viewport>>
    /\ overlayPath' = MountedPath(presence', isOpen', pathname', overlayPath)

\* The navigation a link started commits: usePathname() returns its href.
NavCommit ==
    /\ pendingNav # None
    /\ pathname' = pendingNav
    /\ pendingNav' = None
    /\ last' = Event("commit", None)
    /\ prev' = last
    /\ UNCHANGED lastToggle
    /\ UNCHANGED <<navigation, isOpen, viewport, presence>>
    /\ overlayPath' = MountedPath(presence', isOpen', pathname', overlayPath)

\* A plausible change: an effect on the path that closes the overlay.
RouteChangeClosing(p) ==
    /\ p # pathname
    /\ pathname' = p
    /\ isOpen' = FALSE
    /\ presence' = Presence(presence, isOpen')
    /\ last' = Event("route", None)
    /\ prev' = last
    /\ UNCHANGED lastToggle
    /\ UNCHANGED <<navigation, viewport, pendingNav>>
    /\ overlayPath' = MountedPath(presence', isOpen', pathname', overlayPath)

\* A route change the Sidebar did not start (history back or forward, a link
\* of the page): usePathname() returns another path.
RouteChange(p) ==
    /\ p # pathname
    /\ pathname' = p
    /\ last' = Event("route", None)
    /\ prev' = last
    /\ UNCHANGED lastToggle
    /\ UNCHANGED <<navigation, isOpen, viewport, pendingNav, presence>>
    /\ overlayPath' = MountedPath(presence', isOpen', pathname', overlayPath)

\* A plausible change: a breakpoint listener that closes the overlay.
ResizeCloses ==
    /\ viewport' = IF viewport = "narrow" THEN "wide" ELSE "narrow"
    /\ isOpen' = FALSE
    /\ presence' = Presence(presence, isOpen')
    /\ last' = Event("resize", None)
    /\ prev' = last
    /\ UNCHANGED lastToggle
    /\ UNCHANGED <<navigation, pathname, pendingNav>>
    /\ overlayPath' = MountedPath(presence', isOpen', pathname', overlayPath)

\* The viewport crosses the lg breakpoint.
Resize ==
    /\ viewport' = IF viewport = "narrow" THEN "wide" ELSE "narrow"
    /\ last' = Event("resize", None)
    /\ prev' = last
    /\ UNCHANGED lastToggle
    /\ UNCHANGED <<navigation, pathname, isOpen, pendingNav, presence>>
    /\ overlayPath' = MountedPath(presence', isOpen', pathname', overlayPath)

\* A plausible slip: a completion callback that flips isOpen.
AnimationCompleteToggles ==
    /\ presence \in {"entering", "exiting"}
    /\ presence' = IF presence = "entering" THEN "shown" ELSE "absent"
    /\ isOpen' = ~isOpen
    /\ last' = Event("animation", None)
    /\ prev' = last
    /\ UNCHANGED lastToggle
    /\ UNCHANGED <<navigation, pathname, viewport, pendingNav>>
    /\ overlayPath' = MountedPath(presence', isOpen', pathname', overlayPath)

\* The entrance or exit transition of the overlay ends.
AnimationComplete ==
    /\ presence \in {"entering", "exiting"}
    /\ presence' = IF presence = "entering" THEN "shown" ELSE "absent"
    /\ last' = Event("animation", None)
    /\ prev' = last
    /\ UNCHANGED lastToggle
    /\ UNCHANGED <<navigation, pathname, isOpen, viewport, pendingNav>>
    /\ overlayPath' = MountedPath(presence', isOpen', pathname', overlayPath)

\* A reload of the page: the Sidebar is unmounted and mounted again.
Reload ==
    /\ isOpen' = InitialOpen
    /\ presence' = "absent"
    /\ pendingNav' = None
    /\ last' = Event("mount", None)
    /\ prev' = last
    /\ lastToggle' = "none"
    /\ UNCHANGED <<navigation, pathname, viewport>>
    /\ overlayPath' = MountedPath(presence', isOpen', pathname', overlayPath)

Next ==
    \/ OpenMenu
    \/ CloseMenu
    \/ ScrimClick
    \/ \E panel \in Panels : \E p \in Positions(navigation) : SelectLink(panel, p)
    \/ \E panel \in Panels : SelectBrand(panel)
    \/ NavCommit
    \/ \E p \in Paths : RouteChange(p)
    \/ Resize
    \/ AnimationComplete
    \/ Reload

Spec == Init /\ [][Next]_vars

\* The transitions have a bounded duration (0.2 s, a damped spring): one that
\* runs comes to its end.
SpecLive == Spec /\ WF_vars(AnimationComplete)

\* What the Sidebar returns in the current state.
Rendered == Render(navigation, pathname, isOpen)

\* The list inside the mounted overlay: rendered with the pathname the overlay
\* element was last rendered with.
MountedContent == SidebarContent(navigation, overlayPath)

\* Every copy of the list that is mounted: the desktop panel's, always, and
\* the overlay's while AnimatePresence keeps the overlay mounted.
MountedCopies ==
    {a.content : a \in DesktopOf(Rendered)} \cup
        (IF presence # "absent" THEN {MountedContent} ELSE {})

(* ------------------------------ claims --------------------------------- *)

\* The events that call closeSidebar.
CloseEvents == {"closeButton", "scrim", "link", "brand"}

\* The item at position p matches the current path.
OnRouteOf(p) == pathname = "/docs/" \o ItemAt(navigation, p).slug

\* C1: with unique slugs, when the current path is "/docs/" + I.slug, every
\* rendered copy of the list gives the active variant to exactly I, and the
\* link of I differs from the other links in that variant only: the shared
\* classes and the handler are the same.
C1_ExactlyTheItemActive ==
    UniqueSlugs(navigation) =>
        \A p \in Positions(navigation) :
            OnRouteOf(p) =>
                \A c \in ContentsOf(Rendered) :
                    /\ ActiveIn(c) = {p}
                    /\ LinkAt(c, p).className[2] = ActiveClass
                    /\ \A q \in Positions(navigation) \ {p} :
                          /\ LinkAt(c, q).className[2] = InactiveClass
                          /\ LinkAt(c, q).className[1] = LinkAt(c, p).className[1]
                          /\ LinkAt(c, q).onClick = LinkAt(c, p).onClick

\* Two items in two sections, the path on one of them, both panels rendered.
C1_Witness ==
    /\ UniqueSlugs(navigation)
    /\ Len(navigation) = 2
    /\ \E p, q \in Positions(navigation) : p[1] # q[1] /\ OnRouteOf(p)
    /\ isOpen
    /\ PanelOf(Rendered) # {}

\* C2: in every state and every rendered copy of the list, an item's link has
\* the active variant exactly when the current path equals "/docs/" + slug.
C2_ActiveIffPathEqualsRoute ==
    \A c \in ContentsOf(Rendered) :
        \A p \in Positions(navigation) :
            (LinkAt(c, p).className[2] = ActiveClass) <=> OnRouteOf(p)

\* After a route change: one item on the path, another whose route the path
\* only extends.
C2_Witness ==
    /\ last.ev \in {"route", "commit"}
    /\ pathname = "/docs/go/intro/setup"
    /\ \E p, q \in Positions(navigation) :
          /\ OnRouteOf(p)
          /\ ItemAt(navigation, q).slug = "go/intro"

\* C3: a step that selects a link (an item's or the brand's, in either panel)
\* while isOpen is true ends with isOpen false.
C3_LinkClosesOpenOverlay ==
    [][(isOpen /\ last'.ev \in {"link", "brand"}) => ~isOpen']_vars

\* A link was selected while the overlay was open.
C3_Witness ==
    /\ last.ev \in {"link", "brand"}
    /\ last.wasOpen
    /\ ~isOpen

\* C4, as stated: every step that changes the current path ends with isOpen
\* false.
C4_Original == [][pathname' # pathname => ~isOpen']_vars

\* C4, amended: selecting a link of the Sidebar ends with isOpen false, and a
\* step that changes the current path leaves isOpen as it was.
C4_PathChangeKeepsIsOpen ==
    [][/\ last'.ev \in {"link", "brand"} => ~isOpen'
       /\ pathname' # pathname => isOpen' = isOpen]_vars

\* The path changed while the overlay was open, and it is still open.
C4_Witness ==
    /\ last.ev \in {"route", "commit"}
    /\ last.wasOpen
    /\ isOpen

\* C5, as stated: open() and then at once close() give isOpen the value it had
\* before open().
C5_Original ==
    (last.ev \in CloseEvents /\ prev.ev = "open") => isOpen = prev.wasOpen

\* C5, amended: open() and then at once close() give isOpen = false, which is
\* the value before open() exactly when isOpen was false then.
C5_OpenThenCloseGivesFalse ==
    (last.ev \in CloseEvents /\ prev.ev = "open") =>
        /\ isOpen = FALSE
        /\ (isOpen = prev.wasOpen) <=> (prev.wasOpen = FALSE)

\* open() on an open overlay, then close().
C5_Witness ==
    /\ last.ev \in CloseEvents
    /\ prev.ev = "open"
    /\ prev.wasOpen

\* C6: after close() isOpen is false, also when it was false before, and a
\* close() that follows a close() leaves isOpen as the first one left it.
C6_CloseIdempotent ==
    last.ev \in CloseEvents =>
        /\ isOpen = FALSE
        /\ prev.ev \in CloseEvents => isOpen = last.wasOpen

\* close() on a closed overlay, after another close().
C6_Witness ==
    /\ last.ev \in CloseEvents
    /\ prev.ev \in CloseEvents
    /\ ~last.wasOpen
    /\ ~isOpen

\* C7: after open() isOpen is true, also when it was true before, and an
\* open() that follows an open() leaves isOpen as the first one left it.
C7_OpenIdempotent ==
    last.ev = "open" =>
        /\ isOpen = TRUE
        /\ prev.ev = "open" => isOpen = last.wasOpen

\* open() twice in succession.
C7_Witness ==
    /\ last.ev = "open"
    /\ prev.ev = "open"
    /\ last.wasOpen
    /\ isOpen

\* C8: after the open control on a closed Sidebar, isOpen is true and the
\* returned tree has the scrim and the sliding panel; after the scrim action
\* that follows, isOpen is false and the returned tree has neither.
C8_OpenThenScrim ==
    /\ (last.ev = "open" /\ ~last.wasOpen) =>
          /\ isOpen
          /\ ScrimOf(Rendered) # {}
          /\ PanelOf(Rendered) # {}
    /\ (last.ev = "scrim" /\ prev.ev = "open" /\ ~prev.wasOpen) =>
          /\ ~isOpen
          /\ OverlayOf(Rendered) = <<>>

\* Closed, then the open control, then the scrim.
C8_Witness ==
    /\ last.ev = "scrim"
    /\ last.wasOpen
    /\ prev.ev = "open"
    /\ ~prev.wasOpen
    /\ ~isOpen

\* C9: the tree the Sidebar returns always has the desktop panel, and has the
\* scrim and the sliding panel exactly when isOpen is true.
C9_DesktopAlwaysOverlayIffOpen ==
    /\ DesktopOf(Rendered) # {}
    /\ isOpen => (ScrimOf(Rendered) # {} /\ PanelOf(Rendered) # {})
    /\ ~isOpen => (ScrimOf(Rendered) = {} /\ PanelOf(Rendered) = {})

\* Closed again after having been open.
C9_Witness ==
    /\ ~isOpen
    /\ last.ev \in CloseEvents
    /\ last.wasOpen
    /\ OverlayOf(Rendered) = <<>>
    /\ DesktopOf(Rendered) # {}

\* C10: right after a mount, the first or one after a reload, isOpen is false
\* whatever it was before.
C10_ClosedOnMount == last.ev = "mount" => isOpen = FALSE

\* A reload while the overlay was open.
C10_Witness ==
    /\ last.ev = "mount"
    /\ last.wasOpen
    /\ ~isOpen

\* C11: a step of any of the three close triggers (the close control, a link
\* of the Sidebar, the scrim) ends with isOpen false, whatever isOpen was.
C11_CloseTriggersClose ==
    [][/\ last'.ev = "closeButton" => isOpen' = FALSE
       /\ last'.ev \in {"link", "brand"} => isOpen' = FALSE
       /\ last'.ev = "scrim" => isOpen' = FALSE]_vars

\* The close control used on an open overlay.
C11_Witness ==
    /\ last.ev = "closeButton"
    /\ last.wasOpen
    /\ ~isOpen

\* The open-menu control is displayed.
OpenControlShown == \E b \in OpenButtonOf(Rendered) : Shown(b.hiddenOn)

\* The close control is mounted: the overlay panel that holds it is.
CloseControlPresent == presence # "absent"

\* C12, as stated: the open-menu control is displayed on a narrow viewport
\* only, and the close control is present only while isOpen is true.
C12_Original ==
    /\ OpenControlShown => viewport = "narrow"
    /\ CloseControlPresent => isOpen

\* C12, amended: the open-menu control is displayed exactly on a narrow
\* viewport; the Sidebar returns the close control only while isOpen is true,
\* and it stays mounted only while isOpen is true or the exit transition that
\* follows a close is running.
C12_ControlsOffered ==
    /\ OpenControlShown <=> viewport = "narrow"
    /\ (\E a \in PanelOf(Rendered) : a.closeButton.label = "Close menu") => isOpen
    /\ CloseControlPresent => (isOpen \/ presence = "exiting")
    /\ ENABLED CloseMenu => (viewport = "narrow" /\ (isOpen \/ presence = "exiting"))
    /\ ENABLED OpenMenu => viewport = "narrow"

\* The overlay closed, its exit transition running: the close control is
\* still mounted.
C12_Witness ==
    /\ ~isOpen
    /\ presence = "exiting"
    /\ viewport = "narrow"
    /\ last.ev \in CloseEvents
    /\ last.wasOpen

\* C13: the desktop panel and the overlay are never displayed together.
C13_PanelsExclusive == ~(Clickable("desktop") /\ Clickable("overlay"))

\* The overlay open and mounted on a wide viewport: only the desktop panel is
\* displayed.
C13_Witness ==
    /\ isOpen
    /\ presence = "shown"
    /\ viewport = "wide"
    /\ Clickable("desktop")
    /\ ~Clickable("overlay")

\* C14: two items with the same slug, the current path on their route: every
\* rendered copy of the list gives both the active variant.
C14_DuplicateSlugBothActive ==
    \A p, q \in Positions(navigation) :
        (p # q /\ ItemAt(navigation, p).slug = ItemAt(navigation, q).slug
              /\ OnRouteOf(p)) =>
            \A c \in ContentsOf(Rendered) : {p, q} \subseteq ActiveIn(c)

\* A list with a duplicate slug, the path on it, both panels rendered.
C14_Witness ==
    /\ ~UniqueSlugs(navigation)
    /\ \E p \in Positions(navigation) : OnRouteOf(p)
    /\ \A c \in ContentsOf(Rendered) : Cardinality(ActiveIn(c)) = 2
    /\ isOpen

\* C15: no step changes the navigation data.
C15_NavigationNeverWritten == [][navigation' = navigation]_vars

\* A link followed and its navigation committed, on a list of two sections.
C15_Witness ==
    /\ last.ev = "commit"
    /\ prev.ev = "link"
    /\ Len(navigation) = 2
    /\ navigation[1] # navigation[2]

\* C16: isOpen is true or false and nothing else; within one mount it becomes
\* true only by the open-menu control and false only by a close trigger, the
\* open control always leaves it true and a close trigger always leaves it
\* false; every other step, the end of a transition included, leaves it alone.
C16_TwoStatesTwoTransitions ==
    /\ [](isOpen \in BOOLEAN)
    /\ [][last'.ev # "mount" =>
            /\ (isOpen' /\ ~isOpen) => last'.ev = "open"
            /\ (~isOpen' /\ isOpen) => last'.ev \in CloseEvents
            /\ last'.ev = "open" => isOpen'
            /\ last'.ev \in CloseEvents => ~isOpen']_vars

\* The exit transition ended after a close of an open overlay.
C16_Witness ==
    /\ last.ev = "animation"
    /\ prev.ev \in CloseEvents
    /\ prev.wasOpen
    /\ ~isOpen
    /\ presence = "absent"

\* C17: with unique slugs, no rendered copy of the list has more than one
\* active item, whatever the current path is.
C17_AtMostOneActive ==
    UniqueSlugs(navigation) =>
        \A c \in ContentsOf(Rendered) : Cardinality(ActiveIn(c)) <= 1

\* Two items, the path on the route of neither, both panels rendered.
C17_Witness ==
    /\ UniqueSlugs(navigation)
    /\ Cardinality(Positions(navigation)) = 2
    /\ \A p \in Positions(navigation) : ~OnRouteOf(p)
    /\ \A c \in ContentsOf(Rendered) : ActiveIn(c) = {}
    /\ isOpen

\* C18: isOpen is true exactly when the last open or close event of the mount
\* was open(); with no such event, or a close trigger last, it is false.
C18_LastEventDecides == isOpen <=> lastToggle = "open"

\* Open, closed and opened again at once, the transition still running.
C18_Witness ==
    /\ lastToggle = "open"
    /\ last.ev = "open"
    /\ prev.ev \in CloseEvents
    /\ prev.wasOpen
    /\ presence = "entering"
    /\ isOpen

\* C19: while a transition runs on a narrow viewport the open control and the
\* close triggers are all enabled, and an open() right after a close() of an
\* open overlay gives isOpen = true with the overlay rendered and mounted.
C19_AnimationNeverGates ==
    /\ (presence \in {"entering", "exiting"} /\ viewport = "narrow") =>
          (ENABLED OpenMenu /\ ENABLED CloseMenu /\ ENABLED ScrimClick)
    /\ (last.ev = "open" /\ prev.ev \in CloseEvents /\ prev.wasOpen) =>
          /\ isOpen
          /\ presence \in {"entering", "shown"}
          /\ ScrimOf(Rendered) # {}
          /\ PanelOf(Rendered) # {}

\* A close by the scrim, then at once the open control.
C19_Witness ==
    /\ last.ev = "open"
    /\ ~last.wasOpen
    /\ prev.ev = "scrim"
    /\ prev.wasOpen
    /\ isOpen
    /\ PanelOf(Rendered) # {}

\* C20: a close while the entrance runs turns it into the exit at once, and
\* the transition of the overlay always runs in the direction of isOpen:
\* entering or shown while it is true, exiting or absent while it is false.
C20_OneTransitionAtATime ==
    /\ [](isOpen => presence \in {"entering", "shown"})
    /\ [](~isOpen => presence \in {"exiting", "absent"})
    /\ [][(presence = "entering" /\ last'.ev \in CloseEvents) =>
            presence' = "exiting"]_vars

\* A close right after the open of a closed overlay: the entrance was running.
C20_Witness ==
    /\ last.ev \in CloseEvents
    /\ last.wasOpen
    /\ prev.ev = "open"
    /\ ~prev.wasOpen
    /\ presence = "exiting"

\* C21: a close of a mounted overlay starts its exit transition; within one
\* mount the overlay is unmounted only by the end of that exit transition; an
\* exit transition is left only by the unmount or by an open() that brings
\* the overlay back; and no exit transition runs forever, so an exiting
\* overlay that no open() brings back is eventually unmounted.
C21_ExitThenUnmount ==
    /\ [][(last'.ev \in CloseEvents /\ presence \in {"entering", "shown"}) =>
            presence' = "exiting"]_vars
    /\ [][(presence # "absent" /\ presence' = "absent" /\ last'.ev # "mount") =>
            (presence = "exiting" /\ last'.ev = "animation")]_vars
    /\ [][(presence = "exiting" /\ presence' # "exiting") =>
            \/ presence' = "absent" /\ OverlayOf(Rendered') = <<>>
            \/ last'.ev = "open" /\ isOpen']_vars
    /\ []<>(presence # "exiting")

\* The close button used on an open overlay, then the end of the exit.
C21_Witness ==
    /\ last.ev = "animation"
    /\ prev.ev = "closeButton"
    /\ prev.wasOpen
    /\ presence = "absent"
    /\ overlayPath = None

\* C22: from every state an open step and a close step stay within reach.
\* The viewport can always cross the breakpoint; on a narrow viewport the
\* open control is enabled, and it mounts the overlay; with the overlay
\* mounted on a narrow viewport the close control and the scrim are enabled;
\* on a wide viewport the brand link of the desktop panel, a close trigger,
\* is enabled; open leaves isOpen true and a close trigger leaves it false.
C22_NoTerminalState ==
    /\ [](ENABLED Resize)
    /\ [](viewport = "narrow" => ENABLED OpenMenu)
    /\ []((viewport = "narrow" /\ presence # "absent") =>
            (ENABLED CloseMenu /\ ENABLED ScrimClick))
    /\ [](viewport = "wide" => ENABLED SelectBrand("desktop"))
    /\ [][last'.ev = "resize" => viewport' # viewport]_vars
    /\ [][last'.ev = "open" => (isOpen' /\ presence' # "absent")]_vars
    /\ [][last'.ev \in CloseEvents => ~isOpen']_vars

\* Opened, closed, opened and closed again on a narrow viewport, the open
\* control still enabled.
C22_Witness ==
    /\ last.ev = "closeButton"
    /\ last.wasOpen
    /\ prev.ev = "open"
    /\ prev.wasOpen = FALSE
    /\ lastToggle = "close"
    /\ viewport = "narrow"
    /\ ENABLED OpenMenu
    /\ ENABLED CloseMenu

\* The items whose route is a given path.
ItemsOnRoute(path) ==
    {p \in Positions(navigation) : "/docs/" \o ItemAt(navigation, p).slug = path}

\* C23: the highlight is never stale: after every step that changes the
\* current path, every mounted copy of the list has as active items exactly
\* those whose route is the new path, so no item of the previous path;
\* following the link of the item at a position makes the route of that very
\* item the pending navigation; and after the commit of the pending
\* navigation the items of the followed route, the followed item itself among
\* them, are active in every mounted copy.
C23_HighlightNeverStale ==
    [][/\ pathname' # pathname =>
            \A c \in MountedCopies' :
                /\ ActiveIn(c) = ItemsOnRoute(pathname')
                /\ ActiveIn(c) \cap ItemsOnRoute(pathname) = {}
       /\ \A panel \in Panels : \A p \in Positions(navigation) :
            SelectLink(panel, p) =>
                pendingNav' = "/docs/" \o ItemAt(navigation, p).slug
       /\ last'.ev = "commit" =>
            /\ pendingNav # None
            /\ pathname' = pendingNav
            /\ \A c \in MountedCopies' : ItemsOnRoute(pendingNav) \subseteq ActiveIn(c)]_vars

\* The link of an item followed from the open overlay and committed while the
\* overlay runs its exit transition: the followed item is active in the
\* desktop panel and not in the overlay, where the item of the previous path
\* still is.
C23_StaleAfterFollow ==
    /\ last.ev = "commit"
    /\ prev.ev = "link"
    /\ prev.panel = "overlay"
    /\ prev.wasOpen
    /\ presence = "exiting"
    /\ viewport = "narrow"
    /\ UniqueSlugs(navigation)
    /\ \E p \in Positions(navigation), q \in Positions(navigation) :
          /\ p # q
          /\ ItemsOnRoute(pathname) = {p}
          /\ ItemsOnRoute(overlayPath) = {q}
          /\ \A a \in DesktopOf(Rendered) : ActiveIn(a.content) = {p}
          /\ ActiveIn(MountedContent) = {q}

\* The part of C23 that holds, on the tree the Sidebar returns: the path
\* changes only by a route change or by the commit of a followed link; in the
\* tree returned after either, the active items of each copy of the list are
\* exactly those whose route is the new path; following the link of the item
\* at a position makes the route of that very item the pending navigation;
\* and the commit makes the pending navigation the path.
C23_ReturnedTreeFollowsPath ==
    /\ [](last.ev \in {"route", "commit"} =>
            \A a \in DesktopOf(Rendered) \cup PanelOf(Rendered) :
                ActiveIn(a.content) = ItemsOnRoute(pathname))
    /\ [][pathname' # pathname => last'.ev \in {"route", "commit"}]_vars
    /\ [][last'.ev = "route" => pathname' # pathname]_vars
    /\ [][last'.ev = "commit" =>
            (pendingNav # None /\ pathname' = pendingNav)]_vars
    /\ [][\A panel \in Panels : \A p \in Positions(navigation) :
            SelectLink(panel, p) =>
                pendingNav' = "/docs/" \o ItemAt(navigation, p).slug]_vars

\* C25: when the current path is the route of no item (a trailing slash, the
\* brand target), no item is active in any copy of the list the Sidebar
\* returns; and the brand link carries its fixed class, never the active one,
\* on every path, its own target included.
C25_NoMatchNoActive ==
    /\ (\A p \in Positions(navigation) : ~OnRouteOf(p)) =>
            \A c \in ContentsOf(Rendered) : ActiveIn(c) = {}
    /\ \A c \in ContentsOf(Rendered) :
            /\ c.brand.className = "mb-8 mt-8 block"
            /\ c.brand.className # ActiveClass

\* The path with a trailing slash after an item's route, both panels rendered.
C25_Witness ==
    /\ pathname = "/docs/go/intro/"
    /\ isOpen
    /\ Cardinality(ContentsOf(Rendered)) = 1
    /\ PanelOf(Rendered) # {}
    /\ \E p \in Positions(navigation) : ItemAt(navigation, p).slug = "go/intro"
    /\ \A c \in ContentsOf(Rendered) : ActiveIn(c) = {}

\* C26: whenever the overlay is mounted, the active items it shows are the
\* active items the desktop panel shows. (The claim's other clauses, that the
\* open control, the close control and the scrim change only isOpen, hold:
\* C26_TogglesChangeOnlyIsOpen below.)
C26_OverlayHighlightIsDesktopHighlight ==
    presence # "absent" =>
        ActiveIn(MountedContent) = ActiveIn(SidebarContent(navigation, pathname))

\* An overlay in its exit transition after the route changed under it: its
\* active item is the old one, the desktop panel's is the new one.
C26_StaleOverlay ==
    /\ presence = "exiting"
    /\ ~isOpen
    /\ last.ev = "commit"
    /\ overlayPath # pathname
    /\ ActiveIn(MountedContent) # {}
    /\ ActiveIn(SidebarContent(navigation, pathname)) # {}
    /\ ActiveIn(MountedContent) # ActiveIn(SidebarContent(navigation, pathname))

\* The clauses of C26 that hold: the open control, the close control and the
\* scrim leave the path, the pending navigation and the navigation data
\* unchanged, so the active set of the returned tree is the same before and
\* after; and while isOpen is true the overlay shows the active items of the
\* desktop panel.
C26_TogglesChangeOnlyIsOpen ==
    /\ [][last'.ev \in {"open", "closeButton", "scrim"} =>
            /\ pathname' = pathname
            /\ pendingNav' = pendingNav
            /\ navigation' = navigation
            /\ viewport' = viewport
            /\ ActiveIn(SidebarContent(navigation', pathname')) =
                  ActiveIn(SidebarContent(navigation, pathname))]_vars
    /\ [](isOpen =>
            /\ presence # "absent"
            /\ overlayPath = pathname
            /\ \A a \in PanelOf(Rendered) : \A d \in DesktopOf(Rendered) :
                  ActiveIn(a.content) = ActiveIn(d.content)
            /\ ActiveIn(MountedContent) =
                  ActiveIn(SidebarContent(navigation, pathname)))

\* A step of one of the close triggers of the source: the close control, the
\* scrim, the brand link or an item link of either panel.
CloseStep ==
    \/ CloseMenu
    \/ ScrimClick
    \/ \E panel \in Panels : SelectBrand(panel)
    \/ \E panel \in Panels : \E p \in Positions(navigation) : SelectLink(panel, p)

\* C27: whenever isOpen is true the returned tree holds the scrim, the close
\* control and the overlay's brand and item links, each wired to closeSidebar,
\* and a step of a close trigger that ends with isOpen false is enabled; on a
\* narrow viewport the close control and the scrim themselves are enabled.
C27_OpenNeverTraps ==
    isOpen =>
        /\ \E sc \in ScrimOf(Rendered) : sc.onClick = "closeSidebar"
        /\ \E a \in PanelOf(Rendered) :
              /\ a.closeButton.onClick = "closeSidebar"
              /\ a.content.brand.onClick = "closeSidebar"
              /\ \A p \in Positions(navigation) :
                    LinkAt(a.content, p).onClick = "closeSidebar"
        /\ ENABLED (CloseStep /\ isOpen' = FALSE)
        /\ viewport = "narrow" =>
              /\ Clickable("overlay")
              /\ ENABLED (CloseMenu /\ isOpen' = FALSE)
              /\ ENABLED (ScrimClick /\ isOpen' = FALSE)

\* Just opened on a narrow viewport, the enter transition still running.
C27_Witness ==
    /\ isOpen
    /\ viewport = "narrow"
    /\ presence = "entering"
    /\ last.ev = "open"
    /\ last.wasOpen = FALSE
    /\ ENABLED CloseMenu

\* C28: a viewport change leaves isOpen and the overlay's mount phase
\* unchanged; with isOpen true on a wide viewport the overlay is still in the
\* returned tree and mounted but hidden, and no open control is shown; with
\* isOpen true on a narrow viewport the overlay is visible, whatever came
\* between.
C28_ViewportKeepsOpen ==
    /\ [][last'.ev = "resize" =>
            /\ isOpen' = isOpen
            /\ presence' = presence
            /\ lastToggle' = lastToggle
            /\ Rendered' = Rendered]_vars
    /\ []((isOpen /\ viewport = "wide") =>
            /\ PanelOf(Rendered) # {}
            /\ presence # "absent"
            /\ ~Clickable("overlay")
            /\ \A a \in PanelOf(Rendered) : ~Shown(a.hiddenOn)
            /\ \A sc \in ScrimOf(Rendered) : ~Shown(sc.hiddenOn)
            /\ ~OpenControlShown)
    /\ []((isOpen /\ viewport = "narrow") =>
            /\ Clickable("overlay")
            /\ \A a \in PanelOf(Rendered) : Shown(a.hiddenOn))

\* Opened on narrow, widened, narrowed again with no open() in between: the
\* overlay is visible again.
C28_Witness ==
    /\ last.ev = "resize"
    /\ prev.ev = "resize"
    /\ last.wasOpen
    /\ prev.wasOpen
    /\ isOpen
    /\ lastToggle = "open"
    /\ viewport = "narrow"
    /\ Clickable("overlay")

====
